---- MODULE Spec2Model ----
(***************************************************************************)
(* A model of parts of odin-ai:                                            *)
(*   - FactorVAE.train_steps and FactorStep (odin/bay/vi/autoencoder/      *)
(*     factor_vae.py): the two-step training iteration;                    *)
(*   - DenseDistribution and its shortcut classes (odin/bay/layers/        *)
(*     dense.py) with parse_distribution (odin/bay/distribution_alias.py); *)
(*   - MixtureDensityNetwork.set_prior (odin/bay/layers/dense.py);         *)
(*   - BinarizedMNIST.create_dataset and _partition (_image_base.py);      *)
(*   - bk.transpose as tests/backend/test_tensor_manipulation.py uses it;  *)
(*   - FactorVAE._elbo and total_correlation (factor_vae.py).              *)
(* Each part has its own specification (SpecFactor, SpecDense, SpecMDN,    *)
(* SpecDataset, ...); the variables of the other parts stay at their idle  *)
(* values.                                                                 *)
(***************************************************************************)
EXTENDS Integers, Sequences, FiniteSets, TLC

VARIABLES
  \* ---- FactorVAE (factor_vae.py)
  discriminator,  \* ids of the variables owned by self.discriminator
  disc_params,    \* self.disc_params (a list of variable ids)
  vae_params,     \* self.vae_params  (a list of variable ids)
  values,         \* the value of every trainable variable (update count)
  step,           \* self.step, the iteration counter
  gen,            \* the generator object returned by train_steps
  step1,          \* the TrainStep yielded first
  step2,          \* the FactorStep yielded second
  yielded,        \* kinds of the steps the current generator has yielded
  result1,        \* what the last call of step1 returned
  result2,        \* what the last call of step2 returned / raised
  lastOp,         \* the operation that produced the current state
  \* ---- DenseDistribution and its shortcuts (dense.py)
  layer_cls,          \* class of the constructed layer, "none" before
  posterior_class,    \* self._posterior_class
  event_shape,        \* self._event_shape (an int)
  prior,              \* self._prior
  last_distribution,  \* self._last_distribution
  ncalls,             \* distributions created so far (object identities)
  ret,                \* what the last operation on the layer returned / raised
  \* ---- MixtureDensityNetwork.set_prior (dense.py)
  mdn,                \* the layer: n_components, event_size, covariance
  mdn_prior,          \* its self._prior
  mdn_ret,            \* what the last set_prior returned / raised
  \* ---- image datasets (_image_base.py)
  ds_cls,             \* the dataset class of the object
  ds_ret,             \* what the last create_dataset gave for one example
  \* ---- _partition (_image_base.py)
  part_ret,           \* the last call of _partition: arguments and outcome
  \* ---- bk.transpose (odin/backend, exercised by test_transpose)
  tp_in,              \* the data and the pattern given to the three backends
  tp_ret,             \* the three outputs of bk.transpose
  \* ---- FactorVAE._elbo and total_correlation (factor_vae.py)
  gamma,              \* self.gamma
  elbo_ret            \* what the last _elbo / total_correlation returned

factorVars == <<discriminator, disc_params, vae_params, values, step, gen,
                step1, step2, yielded, result1, result2, lastOp>>

denseVars == <<layer_cls, posterior_class, event_shape, prior,
               last_distribution, ncalls, ret>>

mdnVars == <<mdn, mdn_prior, mdn_ret>>

dsVars == <<ds_cls, ds_ret>>

partVars == <<part_ret>>

tpVars == <<tp_in, tp_ret>>

elboVars == <<gamma, elbo_ret>>

vars == <<factorVars, denseVars, mdnVars, dsVars, partVars, tpVars, elboVars>>

notFactor == <<denseVars, mdnVars, dsVars, partVars, tpVars, elboVars>>

notDense == <<factorVars, mdnVars, dsVars, partVars, tpVars, elboVars>>

notMdn == <<factorVars, denseVars, dsVars, partVars, tpVars, elboVars>>

notDataset == <<factorVars, denseVars, mdnVars, partVars, tpVars, elboVars>>

notPartition == <<factorVars, denseVars, mdnVars, dsVars, tpVars, elboVars>>

notTranspose == <<factorVars, denseVars, mdnVars, dsVars, partVars, elboVars>>

notElbo == <<factorVars, denseVars, mdnVars, dsVars, partVars, tpVars>>

(***************************************************************************)
(* Bounds                                                                  *)
(***************************************************************************)
NumVars == 2        \* trainable variables of the whole model
MaxStep == 2        \* training iterations explored
MaxUpdates == 1     \* optimizer updates are counted modulo MaxUpdates + 1
NumBatches == 1     \* distinct minibatches
MaxHalf == 2        \* a minibatch holds 2 * h examples, h in 1..MaxHalf
MaxEvent == 2       \* event sizes 1..MaxEvent
MaxBatch == 2       \* batch sizes 1..MaxBatch
MaxCalls == 2       \* calls of a layer explored
MaxSample == 3      \* sample_shape in 1..MaxSample
MaxComponents == 2  \* n_components in 1..MaxComponents
MaxRank == 3        \* ranks 1..MaxRank of the data given to bk.transpose
MaxDim == 2         \* axis sizes 1..MaxDim
MaxX == 2           \* at most MaxX entries 'x' in a pattern
MaxGamma == 2       \* gamma in 0..MaxGamma
MaxTc == 1          \* total-correlation estimates in -MaxTc..MaxTc
MaxLlk == 1         \* log-likelihood and divergence values in 0..MaxLlk
Unit == 4           \* inc_labels and uniform draws are multiples of 1/Unit

(***************************************************************************)
(* FactorVAE                                                               *)
(***************************************************************************)
Variables == 1..NumVars

TrainingFlags == {"None", "True", "False"}

\* a minibatch slice: examples lo..hi of minibatch id
NoBatch == [id |-> 0, lo |-> 0, hi |-> 0]

Minibatches == {[id |-> b, lo |-> 1, hi |-> 2 * h] :
                  b \in 1..NumBatches, h \in 1..MaxHalf}

\* tf.split(inputs, 2, axis=0): the two halves of the minibatch
SplitFirst(x) == [id |-> x.id, lo |-> x.lo, hi |-> x.lo + (x.hi - x.lo + 1) \div 2 - 1]

SplitSecond(x) == [id |-> x.id, lo |-> x.lo + (x.hi - x.lo + 1) \div 2, hi |-> x.hi]

\* a latent posterior: the iteration that encoded it and the inputs encoded;
\* NoValue is the missing value (an attribute that was never assigned)
NoValue == [it |-> 0, x |-> NoBatch]

\* vae.encode(inputs, ...) / the qZ_X of vae(inputs, ...) at iteration it
Encode(it, x) == [it |-> it, x |-> x]

\* self.trainable_variables of the whole model, discriminator included
trainable_variables == [i \in Variables |-> i]

RangeOf(s) == {s[i] : i \in DOMAIN s}

\* discriminator.trainable_variables
DiscTrainable(owned) == SelectSeq(trainable_variables, LAMBDA p : p \in owned)

\* a faulty split: the discriminator's variables are not excluded
VaeParamsNoExclude(tv, dp) == tv

\* vae_params = [p for p in self.trainable_variables if id(p) not in exclude]
VaeParams(tv, dp) == SelectSeq(tv, LAMBDA p : p \notin RangeOf(dp))

NoStep == [kind |-> "none", x |-> NoBatch, qin |-> NoValue, training |-> "None",
           parameters |-> <<>>, qZ_X |-> NoValue]

\* TrainStep(vae=self, inputs=x1, training=..., parameters=self.vae_params)
NewTrainStep(x, training, parameters) ==
  [kind |-> "TrainStep", x |-> x, qin |-> NoValue, training |-> training,
   parameters |-> parameters, qZ_X |-> NoValue]

\* FactorStep(vae=self, inputs=[x2, step1.qZ_X], training=..., parameters=...)
NewFactorStep(x, q, training, parameters) ==
  [kind |-> "FactorStep", x |-> x, qin |-> q, training |-> training,
   parameters |-> parameters, qZ_X |-> NoValue]

NoLoss == [fn |-> "none", q |-> NoValue, qp |-> NoValue, training |-> "None"]

NoResult == [status |-> "none", loss |-> NoLoss, metrics |-> {},
             q |-> NoValue, qp |-> NoValue]

NoGen == [pc |-> "none", inputs |-> NoBatch, training |-> "None"]

\* names bound inside FactorStep.__call__ when line 20 is evaluated
FactorStepCallLocals == {"self", "inputs", "qZ_X", "qZ_Xprime"}

\* names bound at module level in factor_vae.py
FactorVaeModuleGlobals == {"Optional", "np", "tf", "keras", "BetaVAE",
                           "FactorDiscriminator", "TrainStep", "FactorStep",
                           "FactorVAE"}

\* Python resolves a bare name in the locals, then in the module globals
\* (no builtin is called training)
NameBound(name) == name \in FactorStepCallLocals \cup FactorVaeModuleGlobals

\* vae.dtc_loss(qZ_X, qZ_Xprime, training): delegated to the discriminator
DtcLoss(q, qp, training) == [fn |-> "dtc_loss", q |-> q, qp |-> qp, training |-> training]

InitFactor ==
  /\ discriminator \in SUBSET Variables
  /\ disc_params = DiscTrainable(discriminator)
  /\ vae_params = VaeParams(trainable_variables, disc_params)
  /\ values = [v \in Variables |-> 0]
  /\ step = 0
  /\ gen = NoGen
  /\ step1 = NoStep
  /\ step2 = NoStep
  /\ yielded = <<>>
  /\ result1 = NoResult
  /\ result2 = NoResult
  /\ lastOp = "init"

IdleFactor ==
  /\ discriminator = {}
  /\ disc_params = <<>>
  /\ vae_params = <<>>
  /\ values = [v \in Variables |-> 0]
  /\ step = 0
  /\ gen = NoGen
  /\ step1 = NoStep
  /\ step2 = NoStep
  /\ yielded = <<>>
  /\ result1 = NoResult
  /\ result2 = NoResult
  /\ lastOp = "idle"

\* vae.train_steps(inputs, training): creates the generator; its body has not
\* run yet.  The caller starts a new iteration once the previous generator is
\* exhausted, and drops the steps of the previous iteration.
TrainSteps(inputs, training) ==
  /\ gen.pc \in {"none", "done"}
  /\ step < MaxStep
  /\ gen' = [pc |-> "created", inputs |-> inputs, training |-> training]
  /\ step1' = NoStep
  /\ step2' = NoStep
  /\ yielded' = <<>>
  /\ result1' = NoResult
  /\ result2' = NoResult
  /\ lastOp' = "train_steps"
  /\ UNCHANGED <<discriminator, disc_params, vae_params, values, step>>
  /\ UNCHANGED notFactor

\* a faulty generator: the two steps are yielded in the wrong order
GenNextFirstSwapped ==
  /\ gen.pc = "created"
  /\ step' = step + 1
  /\ step2' = NewFactorStep(SplitSecond(gen.inputs), step1.qZ_X, gen.training,
                            disc_params)
  /\ yielded' = Append(yielded, "FactorStep")
  /\ gen' = [gen EXCEPT !.pc = "yielded1"]
  /\ lastOp' = "next1"
  /\ UNCHANGED <<discriminator, disc_params, vae_params, values, step1,
                 result1, result2>>
  /\ UNCHANGED notFactor

\* first next(): lines 125-142, up to `yield step1`
GenNextFirst ==
  /\ gen.pc = "created"
  /\ step' = step + 1
  /\ step1' = NewTrainStep(SplitFirst(gen.inputs), gen.training, vae_params)
  /\ yielded' = Append(yielded, "TrainStep")
  /\ gen' = [gen EXCEPT !.pc = "yielded1"]
  /\ lastOp' = "next1"
  /\ UNCHANGED <<discriminator, disc_params, vae_params, values, step2,
                 result1, result2>>
  /\ UNCHANGED notFactor

\* second next(): lines 143-150, up to `yield step2`; step1.qZ_X is read now
GenNextSecond ==
  /\ gen.pc = "yielded1"
  /\ step2' = NewFactorStep(SplitSecond(gen.inputs), step1.qZ_X, gen.training,
                            disc_params)
  /\ yielded' = Append(yielded, "FactorStep")
  /\ gen' = [gen EXCEPT !.pc = "yielded2"]
  /\ lastOp' = "next2"
  /\ UNCHANGED <<discriminator, disc_params, vae_params, values, step, step1,
                 result1, result2>>
  /\ UNCHANGED notFactor

\* third next(): the generator body ends, StopIteration
GenNextStop ==
  /\ gen.pc = "yielded2"
  /\ gen' = [gen EXCEPT !.pc = "done"]
  /\ lastOp' = "stop"
  /\ UNCHANGED <<discriminator, disc_params, vae_params, values, step, step1,
                 step2, yielded, result1, result2>>
  /\ UNCHANGED notFactor

\* step1(): TrainStep.__call__ runs the VAE on its inputs, keeps the posterior
\* as self.qZ_X and returns the negative ELBO with its metrics
CallTrainStep ==
  /\ step1.kind = "TrainStep"
  /\ LET q == Encode(step, step1.x)
         loss == [fn |-> "elbo", q |-> q, qp |-> NoValue, training |-> step1.training]
     IN /\ step1' = [step1 EXCEPT !.qZ_X = q]
        /\ result1' = [status |-> "ok", loss |-> loss,
                       metrics |-> {<<"llk", loss>>, <<"tc", loss>>},
                       q |-> q, qp |-> NoValue]
  /\ lastOp' = "call1"
  /\ UNCHANGED <<discriminator, disc_params, vae_params, values, step, gen,
                 step2, yielded, result2>>
  /\ UNCHANGED notFactor

\* what FactorStep.__call__ gives for the posterior pair (q, qp): line 20
\* evaluates the bare name `training`
FactorStepOutcome(q, qp, training_name) ==
  IF NameBound(training_name)
    THEN LET dtc_loss == DtcLoss(q, qp, step2.training)
         IN [status |-> "ok", loss |-> dtc_loss, metrics |-> {<<"dtc", dtc_loss>>},
             q |-> q, qp |-> qp]
    ELSE [status |-> "NameError", loss |-> NoLoss, metrics |-> {},
          q |-> q, qp |-> qp]

\* step2(): FactorStep.__call__, lines 14-21
CallFactorStep ==
  /\ step2.kind = "FactorStep"
  /\ LET qZ_X == step2.qin
         qZ_Xprime == Encode(step, step2.x)
     IN result2' = FactorStepOutcome(qZ_X, qZ_Xprime, "training")
  /\ lastOp' = "call2"
  /\ UNCHANGED <<discriminator, disc_params, vae_params, values, step, gen,
                 step1, step2, yielded, result1>>
  /\ UNCHANGED notFactor

\* optimizer.apply_gradients on the parameters of a step
Updated(parameters) ==
  [v \in Variables |-> IF v \in RangeOf(parameters)
                         THEN (values[v] + 1) % (MaxUpdates + 1)
                         ELSE values[v]]

\* the caller updates step1.parameters (the VAE optimizer)
ApplyGradients1 ==
  /\ step1.kind = "TrainStep"
  /\ values' = Updated(step1.parameters)
  /\ lastOp' = "update1"
  /\ UNCHANGED <<discriminator, disc_params, vae_params, step, gen, step1,
                 step2, yielded, result1, result2>>
  /\ UNCHANGED notFactor

\* the caller updates step2.parameters (the discriminator optimizer)
ApplyGradients2 ==
  /\ step2.kind = "FactorStep"
  /\ values' = Updated(step2.parameters)
  /\ lastOp' = "update2"
  /\ UNCHANGED <<discriminator, disc_params, vae_params, step, gen, step1,
                 step2, yielded, result1, result2>>
  /\ UNCHANGED notFactor

NextFactor ==
  \/ \E inputs \in Minibatches, training \in TrainingFlags :
        TrainSteps(inputs, training)
  \/ GenNextFirst
  \/ GenNextSecond
  \/ GenNextStop
  \/ CallTrainStep
  \/ CallFactorStep
  \/ ApplyGradients1
  \/ ApplyGradients2

(***************************************************************************)
(* parse_distribution (distribution_alias.py)                              *)
(***************************************************************************)
\* _dist_mapping: multikeysdict, every key of a tuple maps to the same value
\* (the layer class of the pair is kept)
DistEntries ==
  { <<{"bern", "bernoulli"}, "BernoulliLayer">>,
    <<{"zibernoulli", "zeroinflatedbernoulli"}, "ZeroInflatedBernoulliLayer">>,
    <<{"normal", "gaussian"}, "NormalLayer">>,
    <<{"lognormal"}, "LogNormalLayer">>,
    <<{"nb", "negativebinomial"}, "NegativeBinomialLayer">>,
    <<{"zinb", "zinegativebinomial", "zeroinflatednegativebinomial"},
      "ZeroInflatedNegativeBinomialLayer">>,
    <<{"pois", "poisson"}, "PoissonLayer">>,
    <<{"zipois", "zipoisson", "zeroinflatedpoisson"}, "ZeroInflatedPoissonLayer">>,
    <<{"dirichlet"}, "DirichletLayer">>,
    <<{"onehot"}, "OneHotCategoricalLayer">> }

DistKeys == UNION {e[1] : e \in DistEntries}

\* str.lower() on the aliases used here: a string without an upper-case
\* letter is its own lower-case form
LowerTable ==
  { <<"Gaussian", "gaussian">>, <<"BERNOULLI", "bernoulli">>,
    <<"OneHot", "onehot">>, <<"MixNB", "mixnb">> }

Lower(a) ==
  IF \E e \in LowerTable : e[1] = a
    THEN (CHOOSE e \in LowerTable : e[1] = a)[2]
    ELSE a

\* parse_distribution(alias): the layer class, or ValueError
ParseDistribution(alias) ==
  LET a == Lower(alias)
  IN  IF a \notin DistKeys
        THEN [status |-> "ValueError", layer |-> "none"]
        ELSE [status |-> "ok", layer |-> (CHOOSE e \in DistEntries : a \in e[1])[2]]

(***************************************************************************)
(* DenseDistribution (dense.py)                                            *)
(***************************************************************************)
Priors == {"P1", "P2"}

PriorsOrNone == Priors \cup {"None"}

\* the `posterior` argument: an alias, or a DistributionLambda subclass
AliasInputs == {"normal", "Gaussian", "BERNOULLI", "OneHot", "beta", "MixNB"}

PosteriorArgs ==
  {[isclass |-> FALSE, name |-> a] : a \in AliasInputs}
    \cup {[isclass |-> TRUE, name |-> "NormalLayer"]}

\* a distribution object; NoDist stands for None
NoDist == [id |-> 0, shape |-> <<>>, prior |-> "None", kl_prior |-> "None"]

NoRet == [op |-> "none", status |-> "none", value |-> NoDist, shape |-> <<>>,
          cls |-> "none", prior_arg |-> "None", analytic |-> FALSE, n |-> 0]

Ret(op, status) == [NoRet EXCEPT !.op = op, !.status = status]

IdleDense ==
  /\ layer_cls = "none"
  /\ posterior_class = "none"
  /\ event_shape = 0
  /\ prior = "None"
  /\ last_distribution = NoDist
  /\ ncalls = 0
  /\ ret = NoRet

\* no layer has been constructed yet
InitDense == IdleDense

\* DenseDistribution.__init__ (lines 100-146), also reached through super()
\* by the shortcut classes: cls is the class being constructed
DenseDistributionInit(cls, es, posterior, p) ==
  /\ layer_cls = "none"
  /\ LET parsed == IF posterior.isclass
                     THEN [status |-> "ok", layer |-> posterior.name]
                     ELSE ParseDistribution(posterior.name)
     IN  IF parsed.status = "ok"
           THEN /\ layer_cls' = cls
                /\ posterior_class' = parsed.layer
                /\ event_shape' = es
                /\ prior' = p
                /\ last_distribution' = NoDist
                /\ ret' = [Ret("__init__", "ok") EXCEPT !.cls = cls]
           ELSE /\ ret' = [Ret("__init__", parsed.status) EXCEPT !.cls = cls]
                /\ UNCHANGED <<layer_cls, posterior_class, event_shape, prior,
                               last_distribution>>
  /\ UNCHANGED ncalls
  /\ UNCHANGED notDense

\* DenseDeterministic(units), lines 455-483
DenseDeterministicInit(units) ==
  DenseDistributionInit("DenseDeterministic", units,
                        [isclass |-> FALSE, name |-> "vdeterministic"], "None")

\* MixtureDensityNetwork(units, ...), lines 318-354 (prior defaults to None)
MixtureDensityNetworkInit(units) ==
  DenseDistributionInit("MixtureDensityNetwork", units,
                        [isclass |-> FALSE, name |-> "mixgaussian"], "None")

\* MixtureMassNetwork(event_shape, ...), lines 401-446
MixtureMassNetworkInit(es) ==
  DenseDistributionInit("MixtureMassNetwork", es,
                        [isclass |-> FALSE, name |-> "mixnb"], "None")

\* the property DenseDistribution.posterior, lines 201-205
Posterior == last_distribution

\* a faulty call: the prior passed to it becomes the prior of the layer
CallKeepsPrior(batch, p) ==
  /\ layer_cls # "none"
  /\ ncalls < MaxCalls
  /\ LET eff == IF p = "None" THEN prior ELSE p
         posterior == [id |-> ncalls + 1, shape |-> <<batch, event_shape>>,
                       prior |-> eff, kl_prior |-> eff]
     IN  /\ last_distribution' = posterior
         /\ prior' = eff
         /\ ret' = [Ret("call", "ok") EXCEPT !.value = posterior, !.prior_arg = p]
  /\ ncalls' = ncalls + 1
  /\ UNCHANGED <<layer_cls, posterior_class, event_shape>>
  /\ UNCHANGED notDense

\* a faulty call: it forgets to keep the distribution it returns
CallNoStore(batch, p) ==
  /\ layer_cls # "none"
  /\ ncalls < MaxCalls
  /\ LET eff == IF p = "None" THEN prior ELSE p
         posterior == [id |-> ncalls + 1, shape |-> <<batch, event_shape>>,
                       prior |-> eff, kl_prior |-> eff]
     IN  ret' = [Ret("call", "ok") EXCEPT !.value = posterior, !.prior_arg = p]
  /\ ncalls' = ncalls + 1
  /\ UNCHANGED <<layer_cls, posterior_class, event_shape, prior, last_distribution>>
  /\ UNCHANGED notDense

\* layer(inputs, prior=p) on a batch of `batch` rows: DenseDistribution.call,
\* lines 215-242.  A new distribution object is made at every call.
Call(batch, p) ==
  /\ layer_cls # "none"
  /\ ncalls < MaxCalls
  /\ LET eff == IF p = "None" THEN prior ELSE p
         posterior == [id |-> ncalls + 1, shape |-> <<batch, event_shape>>,
                       prior |-> eff, kl_prior |-> eff]
     IN  /\ last_distribution' = posterior
         /\ ret' = [Ret("call", "ok") EXCEPT !.value = posterior, !.prior_arg = p]
  /\ ncalls' = ncalls + 1
  /\ UNCHANGED <<layer_cls, posterior_class, event_shape, prior>>
  /\ UNCHANGED notDense

\* odin.bay.helpers.kl_divergence(q, p, analytic, q_sample=n): the closed
\* form has the shape of q, the Monte Carlo estimate one value per sample
KlHelperShape(qshape, analytic, n) ==
  IF analytic THEN qshape ELSE <<n>> \o qshape

\* tf.expand_dims(t, axis=0)
ExpandDims0(shape) == <<1>> \o shape

\* tf.tile(t, multiples)
Tile(shape, multiples) == [i \in DOMAIN shape |-> shape[i] * multiples[i]]

\* a faulty shape: the closed form is expanded but never tiled
KlDivergenceShapeNoTile(qshape, analytic, n) ==
  LET kullback_div == KlHelperShape(qshape, analytic, n)
  IN  IF analytic THEN ExpandDims0(kullback_div) ELSE kullback_div

\* the shape kl_divergence returns, lines 272-283 (n is a Number)
KlDivergenceShape(qshape, analytic, n) ==
  LET kullback_div == KlHelperShape(qshape, analytic, n)
  IN  IF analytic
        THEN LET expanded == ExpandDims0(kullback_div)
                 ndims == Len(expanded)
             IN  IF n > 1
                   THEN Tile(expanded, <<n>> \o [i \in 1..(ndims - 1) |-> 1])
                   ELSE expanded
        ELSE kullback_div

\* a faulty guard: the posterior is checked before the prior
KlDivergenceGuardPosteriorFirst(p) ==
  IF Posterior = NoDist
    THEN "RuntimeError"
    ELSE IF p = "None" THEN "AssertionError" ELSE "ok"

\* the exception kl_divergence raises before it computes anything, lines
\* 264-270: first the assert on the prior, then the check of the posterior
KlDivergenceGuard(p) ==
  IF p = "None"
    THEN "AssertionError"
    ELSE IF Posterior = NoDist THEN "RuntimeError" ELSE "ok"

\* layer.kl_divergence(prior=p, analytic, sample_shape=n, reverse), 244-283
KlDivergence(p, analytic, n, reverse) ==
  /\ layer_cls # "none"
  /\ LET eff == IF p = "None" THEN prior ELSE p
         guard == KlDivergenceGuard(eff)
     IN  ret' = [Ret("kl_divergence", guard) EXCEPT
                   !.prior_arg = p, !.analytic = analytic, !.n = n,
                   !.shape = IF guard = "ok"
                               THEN KlDivergenceShape(Posterior.shape, analytic, n)
                               ELSE <<>>]
  /\ UNCHANGED <<layer_cls, posterior_class, event_shape, prior,
                 last_distribution, ncalls>>
  /\ UNCHANGED notDense

\* layer.prior = p, lines 187-190
SetPriorProperty(p) ==
  /\ layer_cls # "none"
  /\ prior' = p
  /\ ret' = [Ret("prior.setter", "ok") EXCEPT !.prior_arg = p]
  /\ UNCHANGED <<layer_cls, posterior_class, event_shape, last_distribution, ncalls>>
  /\ UNCHANGED notDense

\* layer.sample(), lines 207-213
Sample ==
  /\ layer_cls # "none"
  /\ ret' = Ret("sample", IF prior = "None" THEN "RuntimeError" ELSE "ok")
  /\ UNCHANGED <<layer_cls, posterior_class, event_shape, prior,
                 last_distribution, ncalls>>
  /\ UNCHANGED notDense

\* layer.log_prob(x), lines 285-288: None has no log_prob
LogProb ==
  /\ layer_cls # "none"
  /\ ret' = Ret("log_prob", IF Posterior = NoDist THEN "AttributeError" ELSE "ok")
  /\ UNCHANGED <<layer_cls, posterior_class, event_shape, prior,
                 last_distribution, ncalls>>
  /\ UNCHANGED notDense

NextDense ==
  \/ \E es \in 1..MaxEvent, posterior \in PosteriorArgs, p \in PriorsOrNone :
        DenseDistributionInit("DenseDistribution", es, posterior, p)
  \/ \E units \in 1..MaxEvent : DenseDeterministicInit(units)
  \/ \E units \in 1..MaxEvent : MixtureDensityNetworkInit(units)
  \/ \E es \in 1..MaxEvent : MixtureMassNetworkInit(es)
  \/ \E batch \in 1..MaxBatch, p \in PriorsOrNone : Call(batch, p)
  \/ \E p \in PriorsOrNone, analytic \in BOOLEAN, n \in 1..MaxSample,
        reverse \in BOOLEAN : KlDivergence(p, analytic, n, reverse)
  \/ \E p \in PriorsOrNone : SetPriorProperty(p)
  \/ Sample
  \/ LogProb

(***************************************************************************)
(* MixtureDensityNetwork.set_prior (dense.py)                              *)
(***************************************************************************)
Covariances == {"none", "diag", "full"}

\* an argument of set_prior: a Python Number, a tensor of some shape, or None
Number == [kind |-> "Number", shape |-> <<>>]

Tensor(shape) == [kind |-> "Tensor", shape |-> shape]

NoneArg == [kind |-> "None", shape |-> <<>>]

\* isinstance(x, Number) or tf.rank(x) == 0
IsScalar(x) == x.kind = "Number" \/ Len(x.shape) = 0

\* scale_shape, lines 366-376
ScaleShape(layer) ==
  IF layer.covariance = "full"
    THEN <<layer.n_components,
           (layer.event_size * (layer.event_size + 1)) \div 2>>
    ELSE <<layer.n_components, layer.event_size>>

\* tf.fill(dims, value): value must be a scalar
Fill(dims, value) ==
  IF IsScalar(value)
    THEN [status |-> "ok", t |-> Tensor(dims)]
    ELSE [status |-> "InvalidArgumentError", t |-> value]

\* tf.cast(x, dtype): a tensor of the same shape
Cast(x) == Tensor(x.shape)

NoMdnPrior == [n_components |-> 0, loc |-> <<>>, log_scale |-> <<>>,
               mixture_logits |-> <<>>]

NoMdnRet == [status |-> "none", self |-> FALSE,
             loc |-> NoneArg, log_scale |-> NoneArg, mixture_logits |-> NoneArg]

\* set_prior(loc, log_scale, mixture_logits), lines 365-396: the status, and
\* the parameters the prior is built from
SetPriorResult(layer, loc, log_scale, mixture_logits) ==
  LET scale_shape == ScaleShape(layer)
      \* line 378 tests log_scale, then fills loc
      loc1 == IF IsScalar(log_scale)
                THEN Fill(<<layer.n_components, layer.event_size>>, loc)
                ELSE [status |-> "ok", t |-> loc]
      scale1 == IF IsScalar(log_scale)
                  THEN Fill(scale_shape, log_scale)
                  ELSE [status |-> "ok", t |-> log_scale]
      logits0 == IF mixture_logits.kind = "None" THEN Number ELSE mixture_logits
      logits1 == IF IsScalar(logits0)
                   THEN Fill(<<layer.n_components>>, logits0)
                   ELSE [status |-> "ok", t |-> logits0]
  IN  IF loc1.status # "ok"
        THEN [status |-> loc1.status, prior |-> NoMdnPrior]
        ELSE [status |-> "ok",
              prior |-> [n_components |-> Cast(logits1.t).shape[1],
                         loc |-> Cast(loc1.t).shape,
                         log_scale |-> Cast(scale1.t).shape,
                         mixture_logits |-> Cast(logits1.t).shape]]

\* the arguments the docstring allows for a layer
LocArgs(layer) ==
  {Number, Tensor(<<>>), Tensor(<<layer.n_components, layer.event_size>>)}

LogScaleArgs(layer) == {Number, Tensor(<<>>), Tensor(ScaleShape(layer))}

MixtureLogitsArgs(layer) ==
  {NoneArg, Number, Tensor(<<>>), Tensor(<<layer.n_components>>)}

IdleMdn ==
  /\ mdn = [n_components |-> 0, event_size |-> 0, covariance |-> "none"]
  /\ mdn_prior = NoMdnPrior
  /\ mdn_ret = NoMdnRet

\* a MixtureDensityNetwork(units, n_components, covariance) without a prior
InitMdn ==
  /\ mdn \in [n_components : 1..MaxComponents, event_size : 1..MaxEvent,
              covariance : Covariances]
  /\ mdn_prior = NoMdnPrior
  /\ mdn_ret = NoMdnRet

\* layer.set_prior(loc, log_scale, mixture_logits)
SetPrior(loc, log_scale, mixture_logits) ==
  /\ LET r == SetPriorResult(mdn, loc, log_scale, mixture_logits)
     IN  /\ mdn_prior' = IF r.status = "ok" THEN r.prior ELSE mdn_prior
         /\ mdn_ret' = [status |-> r.status, self |-> r.status = "ok",
                        loc |-> loc, log_scale |-> log_scale,
                        mixture_logits |-> mixture_logits]
  /\ UNCHANGED mdn
  /\ UNCHANGED notMdn

NextMdn ==
  \E loc \in LocArgs(mdn), log_scale \in LogScaleArgs(mdn),
     mixture_logits \in MixtureLogitsArgs(mdn) :
       SetPrior(loc, log_scale, mixture_logits)

(***************************************************************************)
(* Image datasets (_image_base.py)                                         *)
(***************************************************************************)
\* strings are sequences of characters
UpperCase == <<"A", "B", "C", "D", "E", "F", "G", "H", "I", "J", "K", "L", "M",
               "N", "O", "P", "Q", "R", "S", "T", "U", "V", "W", "X", "Y", "Z">>

LowerCase == <<"a", "b", "c", "d", "e", "f", "g", "h", "i", "j", "k", "l", "m",
               "n", "o", "p", "q", "r", "s", "t", "u", "v", "w", "x", "y", "z">>

Whitespace == {" ", "\t", "\n"}

LowerChar(c) ==
  IF \E i \in DOMAIN UpperCase : UpperCase[i] = c
    THEN LowerCase[CHOOSE i \in DOMAIN UpperCase : UpperCase[i] = c]
    ELSE c

\* str.lower()
StrLower(str) == [i \in DOMAIN str |-> LowerChar(str[i])]

\* str.strip()
StrStrip(str) ==
  LET keep == {i \in DOMAIN str : str[i] \notin Whitespace}
  IN  IF keep = {}
        THEN <<>>
        ELSE SubSeq(str, CHOOSE i \in keep : \A j \in keep : i <= j,
                         CHOOSE i \in keep : \A j \in keep : i >= j)

\* sub in str
StrContains(str, sub) ==
  \E i \in 0..(Len(str) - Len(sub)) : SubSeq(str, i + 1, i + Len(sub)) = sub

StrTrain == <<"t", "r", "a", "i", "n">>

StrValid == <<"v", "a", "l", "i", "d">>

StrTest == <<"t", "e", "s", "t">>

StrUnlabeled == <<"u", "n", "l", "a", "b", "e", "l", "e", "d">>

\* a faulty selection: the name is matched as written, without lower()
PartitionNoLower(part, train, valid, test, unlabeled) ==
  LET name == StrStrip(part)
      found == StrContains(name, StrTrain) \/ StrContains(name, StrValid)
                 \/ StrContains(name, StrTest) \/ StrContains(name, StrUnlabeled)
      data == IF StrContains(name, StrTrain) THEN train
              ELSE IF StrContains(name, StrValid) THEN valid
              ELSE IF StrContains(name, StrTest) THEN test
              ELSE unlabeled
  IN  IF ~found \/ data = "None"
        THEN [status |-> "ValueError", data |-> "None"]
        ELSE [status |-> "ok", data |-> data]

\* _partition(part, train, valid, test, unlabeled), lines 12-27
Partition(part, train, valid, test, unlabeled) ==
  LET name == StrStrip(StrLower(part))
      found == StrContains(name, StrTrain) \/ StrContains(name, StrValid)
                 \/ StrContains(name, StrTest) \/ StrContains(name, StrUnlabeled)
      data == IF StrContains(name, StrTrain) THEN train
              ELSE IF StrContains(name, StrValid) THEN valid
              ELSE IF StrContains(name, StrTest) THEN test
              ELSE unlabeled
  IN  IF ~found \/ data = "None"
        THEN [status |-> "ValueError", data |-> "None"]
        ELSE [status |-> "ok", data |-> data]

DatasetClasses == {"BinarizedMNIST", "MNIST", "BinarizedAlphaDigits"}

MnistClasses == 10

AlphaDigitsClasses == 36

\* the classes of the examples of a dataset (binarized_mnist has no label)
NumClasses(cls) ==
  IF cls = "MNIST" THEN MnistClasses
  ELSE IF cls = "BinarizedAlphaDigits" THEN AlphaDigitsClasses
  ELSE 1

\* len(tf.data.experimental.get_structure(ds)): as_supervised=False gives the
\* dict of the features (binarized_mnist: image only), as_supervised=True the
\* tuple (image, label)
StructLen(cls) == IF cls = "BinarizedMNIST" THEN 1 ELSE 2

\* self.n_labels = len(self.labels): only MNIST overrides labels
NLabels(cls) == IF cls = "MNIST" THEN MnistClasses ELSE 0

\* self.is_binary: MNIST overrides it
IsBinary(cls) == cls # "MNIST"

\* the inc_labels argument: a bool, or a number val / Unit
IncLabelsInputs ==
  {[kind |-> "bool", val |-> v] : v \in {0, 1}}
    \cup {[kind |-> "num", val |-> k] : k \in (0 - Unit)..(2 * Unit)}

\* float(inc_labels), in units of 1 / Unit
Float(x) == IF x.kind = "bool" THEN x.val * Unit ELSE x.val

\* tf.cast(ids == label, tf.float32) with ids = tf.range(n_labels)
OneHot(n_labels, label) == [i \in 1..n_labels |-> IF i - 1 = label THEN 1 ELSE 0]

\* a faulty map: the mask is also made when inc_labels is 1
ProcessMaskInclusive(cls, inc_labels, label, u) ==
  IF inc_labels # 0
    THEN IF 0 < inc_labels /\ inc_labels <= Unit
           THEN [kind |-> "dict", normalized |-> ~IsBinary(cls),
                 label |-> OneHot(NLabels(cls), label),
                 has_label |-> TRUE, has_mask |-> TRUE, mask |-> u < inc_labels]
           ELSE [kind |-> "pair", normalized |-> ~IsBinary(cls),
                 label |-> OneHot(NLabels(cls), label),
                 has_label |-> TRUE, has_mask |-> FALSE, mask |-> FALSE]
    ELSE [kind |-> "image", normalized |-> ~IsBinary(cls), label |-> <<>>,
          has_label |-> FALSE, has_mask |-> FALSE, mask |-> FALSE]

\* _process_dict / _process_tuple (lines 154-180, the same steps on a dict
\* or on a tuple) on one example of class `label`; inc_labels is the float,
\* u the draw of gen.uniform
Process(cls, inc_labels, label, u) ==
  IF inc_labels # 0
    THEN IF 0 < inc_labels /\ inc_labels < Unit
           THEN [kind |-> "dict", normalized |-> ~IsBinary(cls),
                 label |-> OneHot(NLabels(cls), label),
                 has_label |-> TRUE, has_mask |-> TRUE, mask |-> u < inc_labels]
           ELSE [kind |-> "pair", normalized |-> ~IsBinary(cls),
                 label |-> OneHot(NLabels(cls), label),
                 has_label |-> TRUE, has_mask |-> FALSE, mask |-> FALSE]
    ELSE [kind |-> "image", normalized |-> ~IsBinary(cls), label |-> <<>>,
          has_label |-> FALSE, has_mask |-> FALSE, mask |-> FALSE]

NoElement == [kind |-> "none", normalized |-> FALSE, label |-> <<>>,
              has_label |-> FALSE, has_mask |-> FALSE, mask |-> FALSE]

NoIncLabels == [kind |-> "bool", val |-> 0]

NoDsRet == [status |-> "none", data |-> "None", element |-> NoElement,
            inc_labels |-> NoIncLabels, class |-> 0]

PartitionInputs ==
  { StrTrain, StrValid, StrTest, StrUnlabeled,
    <<" ", "T", "r", "a", "i", "n", " ">>,
    <<"T", "E", "S", "T">>,
    <<"v", "a", "l", "i", "d", "a", "t", "i", "o", "n">>,
    <<"d", "e", "v">> }

IdleDataset ==
  /\ ds_cls = "none"
  /\ ds_ret = NoDsRet

\* a dataset object of one of the classes
InitDataset ==
  /\ ds_cls \in DatasetClasses
  /\ ds_ret = NoDsRet

\* create_dataset(partition=..., inc_labels=...), lines 143-192, seen on one
\* example (of class `label`, with uniform draw u / Unit) of the partition;
\* caching, shuffling, batching and prefetching keep the element structure.
\* The call leaves the dataset object as it was, so one call is followed.
CreateDataset(partition, inc_labels, label, u) ==
  /\ ds_cls \in DatasetClasses
  /\ ds_ret = NoDsRet
  /\ LET ds == Partition(partition, "train", "valid", "test", "None")
         inc == IF StructLen(ds_cls) = 1
                  THEN Float([kind |-> "bool", val |-> 0])
                  ELSE Float(inc_labels)
     IN  ds_ret' = IF ds.status # "ok"
                     THEN [NoDsRet EXCEPT !.status = ds.status,
                                          !.inc_labels = inc_labels]
                     ELSE [status |-> "ok", data |-> ds.data,
                           element |-> Process(ds_cls, inc, label, u),
                           inc_labels |-> inc_labels, class |-> label]
  /\ UNCHANGED ds_cls
  /\ UNCHANGED notDataset

NextDataset ==
  \E partition \in PartitionInputs, inc_labels \in IncLabelsInputs,
     label \in 0..(NumClasses(ds_cls) - 1), u \in 0..(Unit - 1) :
       CreateDataset(partition, inc_labels, label, u)

(***************************************************************************)
(* _partition on its own (_image_base.py, lines 12-27)                     *)
(***************************************************************************)
\* the names given as `part`
PartNames ==
  PartitionInputs \cup
    { <<"t", "e", "s", "t", "_", "t", "r", "a", "i", "n">>,
      <<"l", "a", "t", "e", "s", "t">> }

\* what a keyword argument holds: None (the default) or that partition's data
DataOrNone(d) == {"None", d}

NoPartRet ==
  [status |-> "none", part |-> <<>>, train |-> "None", valid |-> "None",
   test |-> "None", unlabeled |-> "None", data |-> "None"]

IdlePartition == part_ret = NoPartRet

InitPartition == part_ret = NoPartRet

\* one call _partition(part, train=..., valid=..., test=..., unlabeled=...)
PartitionCall(part, train, valid, test, unlabeled) ==
  /\ LET r == Partition(part, train, valid, test, unlabeled)
     IN  part_ret' = [status |-> r.status, part |-> part, train |-> train,
                      valid |-> valid, test |-> test, unlabeled |-> unlabeled,
                      data |-> r.data]
  /\ UNCHANGED notPartition

NextPartition ==
  \E part \in PartNames, train \in DataOrNone("d_train"),
     valid \in DataOrNone("d_valid"), test \in DataOrNone("d_test"),
     unlabeled \in DataOrNone("d_unlabeled") :
       PartitionCall(part, train, valid, test, unlabeled)

(***************************************************************************)
(* bk.transpose on the three backends, as test_transpose exercises it      *)
(* (tests/backend/test_tensor_manipulation.py, lines 57-69)                *)
(***************************************************************************)
\* the pattern entry 'x'
X == 0 - 1

Backends == <<"numpy", "torch", "tensorflow">>

\* the shapes of rank r
Shapes(r) == [1..r -> 1..MaxDim]

\* a pattern for a rank-r input: a permutation of the axes 0..r-1 with up to
\* MaxX entries 'x' inserted
IsPattern(p, r) ==
  /\ \A a \in 0..(r - 1) : Cardinality({i \in DOMAIN p : p[i] = a}) = 1
  /\ \A i \in DOMAIN p : p[i] = X \/ p[i] \in 0..(r - 1)

Patterns(r) ==
  {p \in UNION {[1..n -> {X} \cup 0..(r - 1)] : n \in r..(r + MaxX)} :
     IsPattern(p, r)}

\* a tensor of a backend: its shape and, for each of its axes, the axis of
\* the original data it runs along (X for an axis that is not in the data);
\* two tensors over the same data with the same shape and the same axes hold
\* the same values
TensorOf(backend, shape) ==
  [backend |-> backend, shape |-> shape, axes |-> [i \in DOMAIN shape |-> i - 1]]

\* np.transpose(x, perm) / x.permute(perm) / tf.transpose(x, perm)
Permute(t, perm) ==
  [t EXCEPT !.shape = [i \in DOMAIN perm |-> t.shape[perm[i] + 1]],
            !.axes = [i \in DOMAIN perm |-> t.axes[perm[i] + 1]]]

InsertAt(seq, i, e) == SubSeq(seq, 1, i) \o <<e>> \o SubSeq(seq, i + 1, Len(seq))

\* np.expand_dims(x, axis) / x.unsqueeze(axis) / tf.expand_dims(x, axis)
ExpandDims(t, axis) ==
  [t EXCEPT !.shape = InsertAt(t.shape, axis, 1),
            !.axes = InsertAt(t.axes, axis, X)]

IsAxis(e) == e # X

RECURSIVE InsertAxesLast(_, _, _)
InsertAxesLast(t, pattern, i) ==
  IF i > Len(pattern)
    THEN t
    ELSE InsertAxesLast(IF pattern[i] = X THEN ExpandDims(t, Len(t.shape)) ELSE t,
                        pattern, i + 1)

\* a faulty transpose: every new axis is appended after the permuted ones
TransposeAppend(t, pattern) ==
  InsertAxesLast(Permute(t, SelectSeq(pattern, IsAxis)), pattern, 1)

RECURSIVE InsertAxes(_, _, _)
InsertAxes(t, pattern, i) ==
  IF i > Len(pattern)
    THEN t
    ELSE InsertAxes(IF pattern[i] = X THEN ExpandDims(t, i - 1) ELSE t,
                    pattern, i + 1)

\* bk.transpose(t, pattern): the axes are permuted by the pattern without its
\* 'x' entries, then a new axis is inserted at the position of each 'x'
Transpose(t, pattern) ==
  InsertAxes(Permute(t, SelectSeq(pattern, IsAxis)), pattern, 1)

Min(a, b) == IF a < b THEN a ELSE b

\* _equal(self, info, a, b, c), lines 27-35: the shapes agree on the axes
\* that zip pairs up, and the values agree
Equal(a, b, c) ==
  /\ \A i \in 1..Min(Len(a.shape), Min(Len(b.shape), Len(c.shape))) :
       a.shape[i] = b.shape[i] /\ b.shape[i] = c.shape[i]
  /\ a.shape = b.shape /\ a.axes = b.axes
  /\ a.shape = c.shape /\ a.axes = c.axes

NoTpIn == [shape |-> <<>>, pattern |-> <<>>]

NoTensor == [backend |-> "none", shape |-> <<>>, axes |-> <<>>]

NoTpRet == [done |-> FALSE, a |-> NoTensor, b |-> NoTensor, c |-> NoTensor,
            equal |-> FALSE]

IdleTranspose ==
  /\ tp_in = NoTpIn
  /\ tp_ret = NoTpRet

\* the data x (y and z hold the same data) and the pattern of one test
InitTranspose ==
  /\ \E r \in 1..MaxRank :
       \E p \in Patterns(r) :
         \E shape \in Shapes(r) :
           tp_in = [shape |-> shape, pattern |-> p]
  /\ tp_ret = NoTpRet

\* transpose_and_test(pattern), lines 59-63
TransposeAndTest ==
  /\ LET a == Transpose(TensorOf(Backends[1], tp_in.shape), tp_in.pattern)
         b == Transpose(TensorOf(Backends[2], tp_in.shape), tp_in.pattern)
         c == Transpose(TensorOf(Backends[3], tp_in.shape), tp_in.pattern)
     IN  tp_ret' = [done |-> TRUE, a |-> a, b |-> b, c |-> c,
                    equal |-> Equal(a, b, c)]
  /\ UNCHANGED tp_in
  /\ UNCHANGED notTranspose

NextTranspose == TransposeAndTest

(***************************************************************************)
(* FactorVAE._elbo and FactorVAE.total_correlation (factor_vae.py)         *)
(***************************************************************************)
\* the discriminator's total-correlation estimates
TcValues == (0 - MaxTc)..MaxTc

\* a posterior qZ_X, seen through the estimate the discriminator gives for it
\* in training mode and outside of it
Posteriors == [tc_train : TcValues, tc_eval : TcValues]

\* self.discriminator.total_correlation(qZ_X, training=training)
DiscTotalCorrelation(qZ_X, training) ==
  IF training = "True" THEN qZ_X.tc_train ELSE qZ_X.tc_eval

\* the log-likelihoods the base class returns (one value per output)
LlkValues == 0..MaxLlk

\* the names of the divergences of the base class: one per latent layer
DivKeys == {"kl_latents", "kl_labels"}

\* the divergences the base class returns: a dict from names to values
Divergences == UNION {[K -> 0..MaxLlk] : K \in SUBSET DivKeys}

\* super()._elbo(X, pX_Z, qZ_X, analytic, reverse, sample_shape)
BaseElbo(llk, div) == [llk |-> llk, div |-> div]

\* d[key] = value on a dict
DictSet(d, key, value) ==
  [k \in DOMAIN d \cup {key} |-> IF k = key THEN value ELSE d[k]]

NoPosterior == [tc_train |-> 0, tc_eval |-> 0]

NoElboRet ==
  [op |-> "none", qZ_X |-> NoPosterior, training |-> "None", scaled |-> FALSE,
   base_llk |-> 0, base_div |-> <<>>, llk |-> 0, div |-> <<>>, tc |-> 0]

IdleElbo ==
  /\ gamma = 0
  /\ elbo_ret = NoElboRet

\* FactorVAE.__init__, line 61: self.gamma
InitElbo ==
  /\ gamma \in 0..MaxGamma
  /\ elbo_ret = NoElboRet

\* a faulty total_correlation: the estimate is scaled whatever the flag
TotalCorrelationValueAlwaysScaled(qZ_X, scaled_by_gamma, training) ==
  gamma * DiscTotalCorrelation(qZ_X, training)

\* the value of total_correlation(qZ_X, scaled_by_gamma, training), lines 84-91
TotalCorrelationValue(qZ_X, scaled_by_gamma, training) ==
  LET tc == DiscTotalCorrelation(qZ_X, training)
  IN  IF scaled_by_gamma THEN gamma * tc ELSE tc

\* a call of self.total_correlation(qZ_X, scaled_by_gamma=..., training=...);
\* the calls leave the model as it was, so one call is followed
TotalCorrelation(qZ_X, scaled_by_gamma, training) ==
  /\ elbo_ret = NoElboRet
  /\ elbo_ret' = [NoElboRet EXCEPT
                    !.op = "total_correlation", !.qZ_X = qZ_X,
                    !.training = training, !.scaled = scaled_by_gamma,
                    !.tc = TotalCorrelationValue(qZ_X, scaled_by_gamma, training)]
  /\ UNCHANGED gamma
  /\ UNCHANGED notElbo

\* a call of self._elbo(X, pX_Z, qZ_X, ..., training), lines 78-82; llk and
\* div are what the base class computes for the same arguments
Elbo(qZ_X, llk, div, training) ==
  /\ elbo_ret = NoElboRet
  /\ LET base == BaseElbo(llk, div)
         tc == TotalCorrelationValue(qZ_X, TRUE, training)
     IN  elbo_ret' = [NoElboRet EXCEPT
                        !.op = "_elbo", !.qZ_X = qZ_X, !.training = training,
                        !.scaled = TRUE,
                        !.base_llk = llk, !.base_div = div,
                        !.llk = base.llk, !.div = DictSet(base.div, "tc", tc),
                        !.tc = tc]
  /\ UNCHANGED gamma
  /\ UNCHANGED notElbo

NextElbo ==
  \/ \E qZ_X \in Posteriors, scaled_by_gamma \in BOOLEAN,
        training \in TrainingFlags :
          TotalCorrelation(qZ_X, scaled_by_gamma, training)
  \/ \E qZ_X \in Posteriors, llk \in LlkValues, div \in Divergences,
        training \in TrainingFlags :
          Elbo(qZ_X, llk, div, training)

(***************************************************************************)
(* Specifications                                                          *)
(***************************************************************************)
IdleOthers == IdlePartition /\ IdleTranspose /\ IdleElbo

InitSpecFactor == InitFactor /\ IdleDense /\ IdleMdn /\ IdleDataset /\ IdleOthers

SpecFactor == InitSpecFactor /\ [][NextFactor]_vars

InitSpecDense == IdleFactor /\ InitDense /\ IdleMdn /\ IdleDataset /\ IdleOthers

SpecDense == InitSpecDense /\ [][NextDense]_vars

InitSpecMDN == IdleFactor /\ IdleDense /\ InitMdn /\ IdleDataset /\ IdleOthers

SpecMDN == InitSpecMDN /\ [][NextMdn]_vars

InitSpecDataset == IdleFactor /\ IdleDense /\ IdleMdn /\ InitDataset /\ IdleOthers

SpecDataset == InitSpecDataset /\ [][NextDataset]_vars

InitSpecPartition ==
  IdleFactor /\ IdleDense /\ IdleMdn /\ IdleDataset
    /\ InitPartition /\ IdleTranspose /\ IdleElbo

SpecPartition == InitSpecPartition /\ [][NextPartition]_vars

InitSpecTranspose ==
  IdleFactor /\ IdleDense /\ IdleMdn /\ IdleDataset
    /\ IdlePartition /\ InitTranspose /\ IdleElbo

SpecTranspose == InitSpecTranspose /\ [][NextTranspose]_vars

InitSpecElbo ==
  IdleFactor /\ IdleDense /\ IdleMdn /\ IdleDataset
    /\ IdlePartition /\ IdleTranspose /\ InitElbo

SpecElbo == InitSpecElbo /\ [][NextElbo]_vars

(***************************************************************************)
(* Claims about FactorVAE                                                  *)
(***************************************************************************)
StepOrder == <<"TrainStep", "FactorStep">>

\* C1: iterating train_steps to exhaustion yields exactly two steps, the VAE
\* step (a TrainStep) first and the discriminator step (a FactorStep) second:
\* what has been yielded is always a prefix of that order, never a third
\* step, and an exhausted generator has yielded both.
C1_TwoStepsInOrder ==
  /\ Len(yielded) <= 2
  /\ \A i \in DOMAIN yielded : yielded[i] = StepOrder[i]
  /\ Len(yielded) >= 1 => step1.kind = "TrainStep"
  /\ Len(yielded) = 2 => step2.kind = "FactorStep"
  /\ step2.kind = "FactorStep" => step1.kind = "TrainStep"
  /\ gen.pc = "done" => yielded = StepOrder

C1_Witness == gen.pc = "done" /\ yielded = StepOrder /\ step >= 2

\* C2: the first step's parameter list is exactly vae_params and the second
\* step's is exactly disc_params, and an optimizer update of the first
\* step's parameters changes no variable of the discriminator, an update of
\* the second step's parameters changes no variable outside the
\* discriminator.
C2_SeparateParams ==
  /\ [](step1.kind = "TrainStep" => step1.parameters = vae_params)
  /\ [](step2.kind = "FactorStep" => step2.parameters = disc_params)
  /\ [][lastOp' = "update1" =>
          \A v \in discriminator : values'[v] = values[v]]_vars
  /\ [][lastOp' = "update2" =>
          \A v \in Variables \ discriminator : values'[v] = values[v]]_vars

C2_Witness ==
  /\ lastOp = "update2"
  /\ discriminator # {}
  /\ discriminator # Variables
  /\ \E v \in discriminator : values[v] # 0
  /\ \E v \in Variables \ discriminator : values[v] # 0

\* C3 (as claimed): whenever the discriminator step has run, the posterior
\* qZ_X it used is the one the VAE step of the same iteration produced (not a
\* missing value, not one of an earlier iteration), and the other posterior
\* is the encoding of the second half-batch.
C3_SameIterationPosterior ==
  (result1.status = "ok" /\ result2.status # "none") =>
    /\ result2.q # NoValue
    /\ result2.q = Encode(step, SplitFirst(gen.inputs))
    /\ result2.qp = Encode(step, SplitSecond(gen.inputs))

\* C4 (as claimed): calling the discriminator step never raises and returns
\* (dtc_loss, {'dtc': dtc_loss}).
C4_FactorStepReturns ==
  result2.status # "none" =>
    /\ result2.status = "ok"
    /\ result2.loss = DtcLoss(result2.q, result2.qp, step2.training)
    /\ result2.metrics = {<<"dtc", result2.loss>>}

(***************************************************************************)
(* Claims about DenseDistribution                                          *)
(***************************************************************************)
\* C5: DenseDistribution.posterior is None before the layer has ever been
\* called; every call makes it the very distribution object that call
\* returns; no other operation of the layer changes it.
C5_PosteriorIsLastCall ==
  /\ [](ncalls = 0 => Posterior = NoDist)
  /\ [][ret'.op = "call" =>
          Posterior' = ret'.value /\ Posterior'.id = ncalls']_vars
  /\ [][ret'.op # "call" => Posterior' = Posterior]_vars

C5_Witness ==
  /\ ncalls >= 2
  /\ ret.op = "kl_divergence"
  /\ Posterior.id = ncalls

\* the prior kl_divergence works with: the argument, else the layer's prior
C6_EffectivePrior == IF ret.prior_arg = "None" THEN prior ELSE ret.prior_arg

\* C6 (as claimed): on a layer that has never been called, kl_divergence
\* raises RuntimeError.
C6_NeverCalledRuntimeError ==
  (ret.op = "kl_divergence" /\ ncalls = 0) => ret.status = "RuntimeError"

\* C6 (amended): on a layer that has never been called, kl_divergence raises
\* RuntimeError when a prior is available (passed, or stored in the layer)
\* and AssertionError when there is none, and in both cases leaves the
\* layer's prior and last distribution unchanged.
C6_NeverCalledRaises ==
  /\ []((ret.op = "kl_divergence" /\ ncalls = 0) =>
          ret.status = IF C6_EffectivePrior = "None"
                         THEN "AssertionError" ELSE "RuntimeError")
  /\ [][(ret'.op = "kl_divergence" /\ ncalls = 0) =>
          (prior' = prior /\ last_distribution' = last_distribution
             /\ last_distribution' = NoDist)]_vars

C6_Witness ==
  /\ ret.op = "kl_divergence"
  /\ ncalls = 0
  /\ prior # "None"
  /\ ret.status = "RuntimeError"

\* C7: for every integer sample_shape n >= 1, kl_divergence returns a tensor
\* whose leading axis has size n, followed by the axes of the posterior
\* (batch first), with analytic=True and with analytic=False.
C7_KlShape ==
  (ret.op = "kl_divergence" /\ ret.status = "ok") =>
    /\ Len(ret.shape) = Len(Posterior.shape) + 1
    /\ ret.shape[1] = ret.n
    /\ Tail(ret.shape) = Posterior.shape

C7_Witness ==
  /\ ret.op = "kl_divergence"
  /\ ret.status = "ok"
  /\ ret.analytic
  /\ ret.n >= 2
  /\ ret.shape[2] >= 2

ShortcutClasses == {"DenseDeterministic", "MixtureDensityNetwork",
                    "MixtureMassNetwork"}

\* C9 (as claimed): constructing DenseDeterministic, MixtureDensityNetwork or
\* MixtureMassNetwork succeeds: the alias the class passes is resolved by
\* parse_distribution to a layer class.
C9_ShortcutsConstruct ==
  (ret.op = "__init__" /\ ret.cls \in ShortcutClasses) =>
    /\ ret.status = "ok"
    /\ layer_cls = ret.cls
    /\ posterior_class # "none"

(***************************************************************************)
(* Claims about MixtureDensityNetwork.set_prior                            *)
(***************************************************************************)
\* C8 (as claimed): for every combination of scalar / tensor arguments,
\* set_prior returns the layer itself, the loc of the prior has shape
\* [n_components, event_size] (a scalar loc expanded, a tensor loc as given)
\* and the prior is a mixture of n_components components.
C8_SetPriorAccepts ==
  mdn_ret.status # "none" =>
    /\ mdn_ret.status = "ok"
    /\ mdn_ret.self
    /\ mdn_prior.loc = <<mdn.n_components, mdn.event_size>>
    /\ mdn_prior.n_components = mdn.n_components

(***************************************************************************)
(* Claims about create_dataset                                             *)
(***************************************************************************)
C10_Inc == Float(ds_ret.inc_labels)

C10_HasLabels == StructLen(ds_cls) # 1

\* C10 (as claimed): the element structure is decided by inc_labels alone:
\* the pair (image, label) whenever inc_labels is True or >= 1, the dict with
\* a mask exactly when 0 < inc_labels < 1, the image alone only when
\* inc_labels is False/0 or the partition has no labels; no mask outside
\* 0 < inc_labels < 1 and no label when inc_labels is 0.
C10_StructureByIncLabelsAlone ==
  ds_ret.status = "ok" =>
    /\ ds_ret.element.kind = "image" => (C10_Inc = 0 \/ ~C10_HasLabels)
    /\ C10_Inc >= Unit => ds_ret.element.kind = "pair"
    /\ ds_ret.element.kind = "dict" <=> (0 < C10_Inc /\ C10_Inc < Unit)
    /\ ds_ret.element.has_mask => (0 < C10_Inc /\ C10_Inc < Unit)
    /\ C10_Inc = 0 => ~ds_ret.element.has_label

\* C10 (amended): the element structure is decided by inc_labels and by
\* whether the partition carries labels: the image alone exactly when
\* inc_labels is False/0 or the partition has no labels; on a partition with
\* labels, the pair (image, label) when inc_labels is True or >= 1 and the
\* dict with a mask exactly when 0 < inc_labels < 1; no mask outside
\* 0 < inc_labels < 1 and no label when inc_labels is 0.
C10_StructureByIncLabels ==
  ds_ret.status = "ok" =>
    /\ ds_ret.element.kind = "image" <=> (C10_Inc = 0 \/ ~C10_HasLabels)
    /\ (C10_Inc >= Unit /\ C10_HasLabels) => ds_ret.element.kind = "pair"
    /\ ds_ret.element.kind = "dict" <=>
         (0 < C10_Inc /\ C10_Inc < Unit /\ C10_HasLabels)
    /\ ds_ret.element.kind = "dict" <=> ds_ret.element.has_mask
    /\ ds_ret.element.has_mask => (0 < C10_Inc /\ C10_Inc < Unit)
    /\ C10_Inc = 0 => ~ds_ret.element.has_label
    /\ ds_ret.element.kind \in {"pair", "dict"} <=> ds_ret.element.has_label

C10_Witness ==
  /\ ds_ret.status = "ok"
  /\ ds_cls = "MNIST"
  /\ ds_ret.element.kind = "dict"
  /\ ds_ret.element.mask
  /\ ds_ret.inc_labels.kind = "num"

\* the dataset classes whose partitions carry a scalar class label
C11_LabelledClasses == {"MNIST", "BinarizedAlphaDigits"}

\* C11 (as claimed): for MNIST and BinarizedAlphaDigits, a label returned by
\* create_dataset is a one-hot vector whose length is the number of classes
\* of the dataset, with exactly one entry equal to 1, at the index of the
\* example's class.
C11_OneHotLabel ==
  (ds_ret.status = "ok" /\ ds_ret.element.has_label
      /\ ds_cls \in C11_LabelledClasses) =>
    /\ Len(ds_ret.element.label) = NumClasses(ds_cls)
    /\ \A i \in DOMAIN ds_ret.element.label :
         ds_ret.element.label[i] = IF i = ds_ret.class + 1 THEN 1 ELSE 0
    /\ Cardinality({i \in DOMAIN ds_ret.element.label :
                      ds_ret.element.label[i] = 1}) = 1

\* the names of the supported partitions with their keywords, in the order
\* of the tests of _partition
C12_Keywords ==
  << <<"train", StrTrain>>, <<"valid", StrValid>>, <<"test", StrTest>>,
     <<"unlabeled", StrUnlabeled>> >>

\* the data passed for a partition in the last call
C12_Passed(which) ==
  IF which = "train" THEN part_ret.train
  ELSE IF which = "valid" THEN part_ret.valid
  ELSE IF which = "test" THEN part_ret.test
  ELSE part_ret.unlabeled

\* the outcome the claim asks of a call whose name designates `which`
\* ("none": no supported partition)
C12_Outcome(which) ==
  IF which = "none" \/ C12_Passed(which) = "None"
    THEN part_ret.status = "ValueError"
    ELSE part_ret.status = "ok" /\ part_ret.data = C12_Passed(which)
           /\ part_ret.data # "None"

\* a name designates the partition it is equal to once lower-cased and
\* stripped of the surrounding whitespace
C12_NamedExactly ==
  LET name == StrStrip(StrLower(part_ret.part))
      hits == {i \in DOMAIN C12_Keywords : C12_Keywords[i][2] = name}
  IN  IF hits = {} THEN "none" ELSE C12_Keywords[CHOOSE i \in hits : TRUE][1]

\* C12 (as claimed): _partition returns the data passed for the partition the
\* name designates, matching ignoring case and surrounding whitespace, raises
\* ValueError when the name designates no supported partition or that data is
\* None, and never returns None or the data of a different partition.
C12_SelectsNamedPartition ==
  part_ret.status # "none" => C12_Outcome(C12_NamedExactly)

\* a name designates the first of train, valid, test, unlabeled that occurs
\* in it as a substring once lower-cased and stripped
C12_NamedByFirstKeyword ==
  LET name == StrStrip(StrLower(part_ret.part))
      hits == {i \in DOMAIN C12_Keywords : StrContains(name, C12_Keywords[i][2])}
  IN  IF hits = {}
        THEN "none"
        ELSE C12_Keywords[CHOOSE i \in hits : \A j \in hits : i <= j][1]

\* C12 (amended): _partition returns the data passed for the first of train,
\* valid, test, unlabeled whose keyword occurs anywhere in the lower-cased,
\* stripped name ("validation" selects valid, "test_train" selects train),
\* raises ValueError when no keyword occurs in the name or that data is None,
\* and never returns None.
C12_SelectsFirstKeyword ==
  part_ret.status # "none" => C12_Outcome(C12_NamedByFirstKeyword)

\* a name that needs lower() and strip() selected the training data
C12_Witness ==
  /\ part_ret.status = "ok"
  /\ part_ret.part # StrStrip(part_ret.part)
  /\ part_ret.part # StrLower(part_ret.part)
  /\ part_ret.data = part_ret.train
  /\ part_ret.valid # "None" /\ part_ret.test # "None"

\* the shape the claim gives for a pattern: the permuted input dimensions,
\* with a new axis of size 1 at each 'x'
C13_Shape ==
  [i \in DOMAIN tp_in.pattern |->
     IF tp_in.pattern[i] = X THEN 1 ELSE tp_in.shape[tp_in.pattern[i] + 1]]

C14_Estimate == DiscTotalCorrelation(elbo_ret.qZ_X, elbo_ret.training)

\* C14: FactorVAE._elbo returns the base class's log-likelihood unchanged and
\* the base class's divergences with exactly one added entry 'tc', whose value
\* is gamma times the discriminator's total-correlation estimate of qZ_X;
\* total_correlation returns the estimate unscaled when scaled_by_gamma is
\* False and gamma times it otherwise.
C14_ElboAddsScaledTc ==
  /\ elbo_ret.op = "_elbo" =>
       /\ elbo_ret.llk = elbo_ret.base_llk
       /\ DOMAIN elbo_ret.div = DOMAIN elbo_ret.base_div \cup {"tc"}
       /\ \A k \in DOMAIN elbo_ret.base_div :
            elbo_ret.div[k] = elbo_ret.base_div[k]
       /\ elbo_ret.div["tc"] = gamma * C14_Estimate
  /\ elbo_ret.op = "total_correlation" =>
       /\ ~elbo_ret.scaled => elbo_ret.tc = C14_Estimate
       /\ elbo_ret.scaled => elbo_ret.tc = gamma * C14_Estimate

\* _elbo in training mode, on a posterior whose estimate differs between the
\* modes and with a gamma that changes the estimate, next to base divergences
C14_Witness ==
  /\ elbo_ret.op = "_elbo"
  /\ elbo_ret.training = "True"
  /\ elbo_ret.qZ_X.tc_train # elbo_ret.qZ_X.tc_eval
  /\ gamma > 1
  /\ elbo_ret.qZ_X.tc_train # 0
  /\ DOMAIN elbo_ret.base_div = DivKeys
  /\ elbo_ret.div["tc"] = gamma * elbo_ret.qZ_X.tc_train

\* C15: a prior passed to DenseDistribution.call overrides the layer's prior
\* for that call only: the returned distribution's .prior and its
\* KL_divergence use the passed prior when it is not None and the layer's
\* stored prior otherwise, and the layer's stored prior is the same before and
\* after the call.
C15_PriorForThisCallOnly ==
  [][ret'.op = "call" =>
       /\ ret'.status = "ok"
       /\ ret'.value.prior =
            (IF ret'.prior_arg = "None" THEN prior ELSE ret'.prior_arg)
       /\ ret'.value.kl_prior = ret'.value.prior
       /\ prior' = prior]_vars

\* a layer with a prior was called with another prior, then with none: the
\* second distribution carries the layer's own prior again
C15_Witness ==
  /\ ret.op = "call"
  /\ ncalls >= 2
  /\ ret.prior_arg = "None"
  /\ prior # "None"
  /\ ret.value.prior = prior
  /\ ret.value.kl_prior = prior

====
